---- MODULE Spec2Model ----
(***************************************************************************)
(* Zero Standing Privilege gateway: the grant -> schedule -> revoke        *)
(* lifecycle of function_app.py, with the provider adapters of             *)
(* admin_access.py and nhi_access.py and the audit recorder of audit.py.   *)
(*                                                                         *)
(* Time is counted in whole seconds.  The Graph / ARM provider, the        *)
(* Durable Functions host and the Logs Ingestion sink are the environment: *)
(* their outcomes (success, "already exists", "not found", an unexpected   *)
(* fault) are chosen nondeterministically where the code calls them.       *)
(***************************************************************************)
EXTENDS Integers, Sequences, FiniteSets, TLC

VARIABLES clock, members, assignments, uuids, reqs, orchestrations, audit, backup, environ

vars == <<clock, members, assignments, uuids, reqs, orchestrations, audit, backup, environ>>

(***************************************************************************)
(* Bounds of the model.                                                    *)
(***************************************************************************)
\* provider grants one behaviour may ask for: one for each HTTP request, two for
\* each run of the backup job
MaxGrants == 2
\* handlers (HTTP requests, the backup job) in flight at the same time
MaxInFlight == 1
\* executions of one revoke activity (at-least-once delivery)
MaxDeliveries == 2
\* seconds the clock may drift off a whole minute through single-second ticks
MaxSkew == 1
\* the ceiling MAX_ACCESS_DURATION_MINUTES the deployment configures
MaxDurationSetting == 2

(***************************************************************************)
(* Program constants.                                                      *)
(***************************************************************************)
\* timedelta(minutes=n) is n * 60 seconds
SecondsPerMinute == 60
\* len(body["justification"]) < 10
MinJustificationLength == 10
\* BACKUP_JOB_DURATION_MINUTES as configured
BackupJobDuration == 1

(***************************************************************************)
(* Text.  A message is the sequence of its words; str.lower() maps the     *)
(* words that carry capitals and "x in msg" is a search for a contiguous   *)
(* run of words.                                                           *)
(***************************************************************************)
LowerWord(w) ==
    CASE w = "Already" -> "already"
      [] w = "Exist" -> "exist"
      [] w = "Unknown" -> "unknown"
      [] w = "Forbidden" -> "forbidden"
      [] OTHER -> w

Lower(msg) == [i \in 1..Len(msg) |-> LowerWord(msg[i])]

Contains(msg, needle) ==
    \E i \in 0..(Len(msg) - Len(needle)) :
        \A j \in 1..Len(needle) : msg[i + j] = needle[j]

\* a text of n characters
Text(n) == [i \in 1..n |-> "x"]

(***************************************************************************)
(* Time stamps: datetime.isoformat() and datetime.fromisoformat().         *)
(***************************************************************************)
isoformat(t) == [minute |-> t \div SecondsPerMinute, second |-> t % SecondsPerMinute]

fromisoformat(s) == s.minute * SecondsPerMinute + s.second

timedelta(minutes) == minutes * SecondsPerMinute

\* the place of a time stamp that was not given (None)
NoneTime == [minute |-> 0, second |-> 0 - 1]

(***************************************************************************)
(* Identities, targets and resource identifiers.  A resource identifier    *)
(* is kept as the list str.split("/") makes of it.                         *)
(***************************************************************************)
Users == {"u1", "u2"}

Groups == {"g1"}

BACKUP_SP_OBJECT_ID == "sp1"

KEYVAULT_RESOURCE_ID == <<"", "subscriptions", "sub1", "vaults", "kv">>

STORAGE_RESOURCE_ID == <<"", "subscriptions", "sub1", "storageAccounts", "st">>

\* a scope that names no subscription
ScopeWithoutSubscription == <<"", "resourceGroups", "rg">>

ROLE_DEFINITIONS ==
    [r \in {"Key Vault Secrets User", "Key Vault Secrets Officer", "Key Vault Reader",
            "Storage Blob Data Reader", "Storage Blob Data Contributor", "Reader",
            "Contributor"} |->
        CASE r = "Key Vault Secrets User" -> "4633458b-17de-408a-b874-0445c86b69e6"
          [] r = "Key Vault Secrets Officer" -> "b86a8fe4-44ce-4948-aee5-eccb2c155cd7"
          [] r = "Key Vault Reader" -> "21090545-7ca7-4776-b22c-e363652d74d2"
          [] r = "Storage Blob Data Reader" -> "2a2b9908-6ea1-4ae2-8e65-a410df84e7d1"
          [] r = "Storage Blob Data Contributor" -> "ba92f5b4-2d11-453d-a403-e96b0029c9fe"
          [] r = "Reader" -> "acdd72a7-3385-48ef-bd42-f606fba81ae7"
          [] r = "Contributor" -> "b24988ac-6180-42a0-ab88-20f7382dd24c"]

\* list.index(x): the first position of x (1-based here), 0 when absent
IndexOf(parts, x) ==
    IF \E i \in 1..Len(parts) : parts[i] = x
    THEN CHOOSE i \in 1..Len(parts) : parts[i] = x /\ \A j \in 1..(i - 1) : parts[j] # x
    ELSE 0

(***************************************************************************)
(* Errors.  A call either returns (raised = FALSE) or raises, with the     *)
(* message str(e) would give.                                              *)
(***************************************************************************)
NoError == <<>>

\* Graph: the reference is already there
AlreadyExistsError == <<"One", "or", "more", "added", "object", "references", "Already", "Exist">>

\* Graph / ARM: the member or assignment is not there
NotFoundError == <<"Resource", "does", "not", "exist">>

\* any other failure of the provider (throttling, outage, missing permission)
ProviderError == <<"Forbidden">>

SchedulerError == <<"start_new", "failed">>

(***************************************************************************)
(* The Access Provider (Microsoft Graph group members, ARM role            *)
(* assignments) as the adapters call it.  fault = TRUE is an unexpected    *)
(* failure of the call, which leaves the provider's state as it was.       *)
(***************************************************************************)
members_ref_post(ms, group_id, user_id, fault) ==
    IF fault THEN [raised |-> TRUE, error |-> ProviderError, members |-> ms]
    ELSE IF <<group_id, user_id>> \in ms
         THEN [raised |-> TRUE, error |-> AlreadyExistsError, members |-> ms]
         ELSE [raised |-> FALSE, error |-> NoError, members |-> ms \cup {<<group_id, user_id>>}]

\* members_ref_delete emptying the whole group
members_ref_delete_whole_group(ms, group_id, user_id, fault) ==
    IF fault THEN [raised |-> TRUE, error |-> ProviderError, members |-> ms]
    ELSE IF <<group_id, user_id>> \notin ms
         THEN [raised |-> TRUE, error |-> NotFoundError, members |-> ms]
         ELSE [raised |-> FALSE, error |-> NoError,
               members |-> {m \in ms : m[1] # group_id}]

members_ref_delete(ms, group_id, user_id, fault) ==
    IF fault THEN [raised |-> TRUE, error |-> ProviderError, members |-> ms]
    ELSE IF <<group_id, user_id>> \notin ms
         THEN [raised |-> TRUE, error |-> NotFoundError, members |-> ms]
         ELSE [raised |-> FALSE, error |-> NoError, members |-> ms \ {<<group_id, user_id>>}]

role_assignments_create(as, scope, role_assignment_name, role_definition_id, principal_id, fault) ==
    LET id == scope \o <<"providers", "Microsoft.Authorization", "roleAssignments", role_assignment_name>>
        assignment == [id |-> id, scope |-> scope, role_definition_id |-> role_definition_id,
                       principal_id |-> principal_id]
    IN  IF fault THEN [raised |-> TRUE, error |-> ProviderError, assignments |-> as, id |-> <<>>]
        ELSE [raised |-> FALSE, error |-> NoError, assignments |-> as \cup {assignment}, id |-> id]

\* role_assignments_delete_by_id deleting every assignment on the identifier's scope
role_assignments_delete_by_scope(as, assignment_id, fault) ==
    LET scope == SubSeq(assignment_id, 1, Len(assignment_id) - 4)
    IN  IF fault THEN [raised |-> TRUE, error |-> ProviderError, assignments |-> as]
        ELSE IF \A a \in as : a.id # assignment_id
             THEN [raised |-> TRUE, error |-> NotFoundError, assignments |-> as]
             ELSE [raised |-> FALSE, error |-> NoError,
                   assignments |-> {a \in as : a.scope # scope}]

role_assignments_delete_by_id(as, assignment_id, fault) ==
    IF fault THEN [raised |-> TRUE, error |-> ProviderError, assignments |-> as]
    ELSE IF \A a \in as : a.id # assignment_id
         THEN [raised |-> TRUE, error |-> NotFoundError, assignments |-> as]
         ELSE [raised |-> FALSE, error |-> NoError,
               assignments |-> {a \in as : a.id # assignment_id}]

(***************************************************************************)
(* admin_access.py                                                         *)
(***************************************************************************)
NoAdminResult ==
    [status |-> "", user_id |-> "", group_id |-> "", expires_at |-> NoneTime,
     duration_minutes |-> 0, justification |-> <<>>, ticket_id |-> ""]

\* grant_admin_access re-raising every error of the add, "already exist" included
grant_admin_access_strict(ms, now, user_id, group_id, duration_minutes, justification, ticket_id, fault) ==
    LET post == members_ref_post(ms, group_id, user_id, fault)
    IN  IF post.raised
        THEN [raised |-> TRUE, error |-> post.error, members |-> post.members,
              result |-> NoAdminResult]
        ELSE [raised |-> FALSE, error |-> NoError, members |-> post.members,
              result |-> [status |-> "granted", user_id |-> user_id, group_id |-> group_id,
                          expires_at |-> isoformat(now + timedelta(duration_minutes)),
                          duration_minutes |-> duration_minutes,
                          justification |-> justification, ticket_id |-> ticket_id]]

\* The membership listing of lines 40-49 only logs; the add of line 57 decides.
grant_admin_access(ms, now, user_id, group_id, duration_minutes, justification, ticket_id, fault) ==
    LET post == members_ref_post(ms, group_id, user_id, fault)
        error_msg == Lower(post.error)
        tolerated == \/ Contains(error_msg, <<"already", "exist">>)
                     \/ Contains(error_msg, <<"added", "object", "references", "already", "exist">>)
        expiry_time == now + timedelta(duration_minutes)
    IN  IF post.raised /\ ~tolerated
        THEN [raised |-> TRUE, error |-> post.error, members |-> post.members,
              result |-> NoAdminResult]
        ELSE [raised |-> FALSE, error |-> NoError, members |-> post.members,
              result |-> [status |-> "granted", user_id |-> user_id, group_id |-> group_id,
                          expires_at |-> isoformat(expiry_time),
                          duration_minutes |-> duration_minutes,
                          justification |-> justification, ticket_id |-> ticket_id]]

\* revoke_admin_access without its except clause: the provider's error escapes
revoke_admin_access_raising(ms, now, user_id, group_id, fault) ==
    LET del == members_ref_delete(ms, group_id, user_id, fault)
    IN  [raised |-> del.raised, members |-> del.members,
         result |-> [status |-> IF del.raised THEN "" ELSE "revoked", user_id |-> user_id,
                     group_id |-> group_id, revoked_at |-> isoformat(now),
                     error |-> del.error]]

revoke_admin_access(ms, now, user_id, group_id, fault) ==
    LET del == members_ref_delete(ms, group_id, user_id, fault)
    IN  IF ~del.raised
        THEN [raised |-> FALSE, members |-> del.members,
              result |-> [status |-> "revoked", user_id |-> user_id, group_id |-> group_id,
                          revoked_at |-> isoformat(now), error |-> NoError]]
        ELSE [raised |-> FALSE, members |-> del.members,
              result |-> [status |-> "already_revoked", user_id |-> user_id,
                          group_id |-> group_id, revoked_at |-> isoformat(now),
                          error |-> del.error]]

(***************************************************************************)
(* nhi_access.py                                                           *)
(***************************************************************************)
get_subscription_id_from_scope(scope) ==
    LET idx == IndexOf(scope, "subscriptions")
    IN  IF idx # 0 /\ idx + 1 <= Len(scope)
        THEN [raised |-> FALSE, error |-> NoError, value |-> scope[idx + 1]]
        ELSE [raised |-> TRUE, value |-> "",
              error |-> <<"Could", "not", "extract", "subscription", "ID", "from", "scope">>]

\* get_role_definition_id passing an unknown role name on as the definition's name
get_role_definition_id_unchecked(role_name, subscription_id) ==
    [raised |-> FALSE, error |-> NoError,
     value |-> <<"", "subscriptions", subscription_id, "providers",
                 "Microsoft.Authorization", "roleDefinitions",
                 IF role_name \in DOMAIN ROLE_DEFINITIONS
                 THEN ROLE_DEFINITIONS[role_name] ELSE role_name>>]

get_role_definition_id(role_name, subscription_id) ==
    IF role_name \in DOMAIN ROLE_DEFINITIONS
    THEN [raised |-> FALSE, error |-> NoError,
          value |-> <<"", "subscriptions", subscription_id, "providers",
                      "Microsoft.Authorization", "roleDefinitions", ROLE_DEFINITIONS[role_name]>>]
    ELSE [raised |-> TRUE, value |-> <<>>,
          error |-> <<"Unknown", "role:", role_name>>]

\* str(uuid.uuid4()): a name no earlier call returned
uuid4(n) == "uuid-" \o ToString(n)

NoNhiResult ==
    [status |-> "", assignment_id |-> <<>>, assignment_name |-> "", sp_object_id |-> "",
     scope |-> <<>>, role |-> "", expires_at |-> NoneTime, duration_minutes |-> 0,
     workflow_id |-> ""]

NhiRaise(as, n, error) ==
    [raised |-> TRUE, error |-> error, assignments |-> as, uuids |-> n, result |-> NoNhiResult]

grant_nhi_access(as, n, now, sp_object_id, scope, role_name, duration_minutes, workflow_id, fault) ==
    LET sub == get_subscription_id_from_scope(scope)
        assignment_name == uuid4(n + 1)
        role_def == get_role_definition_id(role_name, sub.value)
        created == role_assignments_create(as, scope, assignment_name, role_def.value,
                                           sp_object_id, fault)
        expiry_time == now + timedelta(duration_minutes)
    IN  IF sub.raised THEN NhiRaise(as, n, sub.error)
        ELSE IF role_def.raised THEN NhiRaise(as, n + 1, role_def.error)
        ELSE IF created.raised THEN NhiRaise(as, n + 1, created.error)
        ELSE [raised |-> FALSE, error |-> NoError, assignments |-> created.assignments,
              uuids |-> n + 1,
              result |-> [status |-> "granted", assignment_id |-> created.id,
                          assignment_name |-> assignment_name, sp_object_id |-> sp_object_id,
                          scope |-> scope, role |-> role_name,
                          expires_at |-> isoformat(expiry_time),
                          duration_minutes |-> duration_minutes,
                          workflow_id |-> workflow_id]]

\* revoke_nhi_access reporting "revoked" whatever the provider answered
revoke_nhi_access_always_revoked(as, now, assignment_id, fault) ==
    LET del == role_assignments_delete_by_id(as, assignment_id, fault)
    IN  [raised |-> FALSE, assignments |-> del.assignments,
         result |-> [status |-> "revoked", assignment_id |-> assignment_id,
                     revoked_at |-> isoformat(now), error |-> del.error]]

\* parts.index("subscriptions") of line 126 is outside the try: it raises for an
\* identifier that names no subscription.
revoke_nhi_access(as, now, assignment_id, fault) ==
    LET idx == IndexOf(assignment_id, "subscriptions")
        del == role_assignments_delete_by_id(as, assignment_id, fault)
    IN  IF idx = 0 \/ idx + 1 > Len(assignment_id)
        THEN [raised |-> TRUE, assignments |-> as,
              result |-> [status |-> "", assignment_id |-> assignment_id,
                          revoked_at |-> isoformat(now), error |-> <<"ValueError">>]]
        ELSE IF ~del.raised
        THEN [raised |-> FALSE, assignments |-> del.assignments,
              result |-> [status |-> "revoked", assignment_id |-> assignment_id,
                          revoked_at |-> isoformat(now), error |-> NoError]]
        ELSE [raised |-> FALSE, assignments |-> del.assignments,
              result |-> [status |-> "already_revoked", assignment_id |-> assignment_id,
                          revoked_at |-> isoformat(now), error |-> del.error]]

(***************************************************************************)
(* audit.py.  audit holds the events handed to log_access_event, grouped   *)
(* by the code that made the call: audit.request[r] are the events of      *)
(* request r, audit.activity[i] those of the revoke activity of            *)
(* orchestration instance i and audit.backup those of the backup job,      *)
(* each in call order.  Delivery tells what                                *)
(* became of an event: "skipped" (the sink is not configured), "uploaded", *)
(* or "failed" (the upload raised and the error was logged locally).  The  *)
(* descriptive fields no property reads (TimeGenerated, PrincipalName,     *)
(* Justification, TicketId, WorkflowId, RequestedBy) are left out.         *)
(***************************************************************************)
Get(kwargs, key, default) == IF key \in DOMAIN kwargs THEN kwargs[key] ELSE default

\* what an upload that raised leaves the caller with
AuditError == <<"upload", "failed">>

\* log_access_event without its try / except: a failed upload raises to the caller
log_access_event_unguarded(au, env, kwargs, origin) ==
    LET log_entry ==
            [EventType |-> kwargs.event_type,
             IdentityType |-> kwargs.identity_type,
             PrincipalId |-> kwargs.principal_id,
             Target |-> kwargs.target,
             TargetType |-> kwargs.target_type,
             Role |-> Get(kwargs, "role", ""),
             DurationMinutes |-> Get(kwargs, "duration_minutes", 0),
             ExpiresAt |-> Get(kwargs, "expires_at", NoneTime),
             Result |-> kwargs.result,
             ErrorMessage |-> Get(kwargs, "error_message", NoError)]
        Delivery == IF ~env.DCR_CONFIGURED THEN "skipped"
                    ELSE IF env.SINK_UP THEN "uploaded" ELSE "failed"
    IN  [raised |-> Delivery = "failed",
         audit |-> [au EXCEPT ![origin.by][origin.id] =
                        Append(@, log_entry @@ [Delivery |-> Delivery])]]

log_access_event(au, env, kwargs, origin) ==
    LET log_entry ==
            [EventType |-> kwargs.event_type,
             IdentityType |-> kwargs.identity_type,
             PrincipalId |-> kwargs.principal_id,
             Target |-> kwargs.target,
             TargetType |-> kwargs.target_type,
             Role |-> Get(kwargs, "role", ""),
             DurationMinutes |-> Get(kwargs, "duration_minutes", 0),
             ExpiresAt |-> Get(kwargs, "expires_at", NoneTime),
             Result |-> kwargs.result,
             ErrorMessage |-> Get(kwargs, "error_message", NoError)]
        Delivery == IF ~env.DCR_CONFIGURED THEN "skipped"
                    ELSE IF env.SINK_UP THEN "uploaded" ELSE "failed"
    IN  [raised |-> FALSE,
         audit |-> [au EXCEPT ![origin.by][origin.id] =
                        Append(@, log_entry @@ [Delivery |-> Delivery])]]

(***************************************************************************)
(* function_app.py: the request bodies the model submits.                  *)
(***************************************************************************)
Durations == {0, 1, MaxDurationSetting, MaxDurationSetting + 1}

HumanBody(u, g, d, n) ==
    [user_id |-> u, group_id |-> g, duration_minutes |-> d, justification |-> Text(n)]

HumanBodies ==
    {HumanBody("u1", g, d, MinJustificationLength) : g \in Groups, d \in Durations}
    \cup {HumanBody(u, g, 1, MinJustificationLength) : u \in Users, g \in Groups}
    \cup {HumanBody("u1", "g1", 1, MinJustificationLength - 1)}
    \cup {[user_id |-> "u1", justification |-> Text(MinJustificationLength)]}

NhiBody(sp, scope, role, d) ==
    [sp_object_id |-> sp, scope |-> scope, role |-> role, duration_minutes |-> d,
     workflow_id |-> "manual-test"]

NhiBodies ==
    {NhiBody("sp1", KEYVAULT_RESOURCE_ID, "Key Vault Secrets User", d) :
        d \in {MaxDurationSetting, MaxDurationSetting + 1}}
    \cup {NhiBody("sp1", KEYVAULT_RESOURCE_ID, "Owner", 1)}
    \cup {NhiBody("sp1", ScopeWithoutSubscription, "Reader", 1)}
    \cup {[sp_object_id |-> "sp1", role |-> "Reader", duration_minutes |-> 1]}

\* req.get_json() raises ValueError for a body that is not JSON
HttpRequests(bodies) ==
    {[json |-> TRUE, body |-> b] : b \in bodies} \cup {[json |-> FALSE, body |-> <<>>]}

HttpResponse(json, status_code) == [status_code |-> status_code, json |-> json]

NoResponse == HttpResponse(<<>>, 0)

\* [f for f in required_fields if f not in body]
MissingFields(required_fields, body) ==
    SelectSeq(required_fields, LAMBDA f : f \notin DOMAIN body)

\* admin_validate without the duration check of lines 61-68
admin_validate_no_ceiling(req, max_duration) ==
    LET body == req.body
        missing == MissingFields(<<"user_id", "group_id", "duration_minutes", "justification">>, body)
    IN  IF ~req.json
        THEN HttpResponse([error |-> <<"Invalid", "JSON", "body">>], 400)
        ELSE IF missing # <<>>
        THEN HttpResponse([error |-> <<"Missing", "required", "fields:">> \o missing], 400)
        ELSE IF Len(body.justification) < MinJustificationLength
        THEN HttpResponse([error |-> <<"Justification", "must", "be", "at", "least", "10", "characters">>], 400)
        ELSE NoResponse

\* admin_validate rejecting a justification of exactly the minimum length too
admin_validate_length_inclusive(req, max_duration) ==
    LET body == req.body
        missing == MissingFields(<<"user_id", "group_id", "duration_minutes", "justification">>, body)
    IN  IF ~req.json
        THEN HttpResponse([error |-> <<"Invalid", "JSON", "body">>], 400)
        ELSE IF missing # <<>>
        THEN HttpResponse([error |-> <<"Missing", "required", "fields:">> \o missing], 400)
        ELSE IF body.duration_minutes > max_duration
        THEN HttpResponse([error |-> <<"Duration", "exceeds", "maximum">>], 400)
        ELSE IF Len(body.justification) <= MinJustificationLength
        THEN HttpResponse([error |-> <<"Justification", "must", "be", "at", "least", "10", "characters">>], 400)
        ELSE NoResponse

\* lines 42-76: the response that rejects the request, or NoResponse
admin_validate(req, max_duration) ==
    LET body == req.body
        missing == MissingFields(<<"user_id", "group_id", "duration_minutes", "justification">>, body)
    IN  IF ~req.json
        THEN HttpResponse([error |-> <<"Invalid", "JSON", "body">>], 400)
        ELSE IF missing # <<>>
        THEN HttpResponse([error |-> <<"Missing", "required", "fields:">> \o missing], 400)
        ELSE IF body.duration_minutes > max_duration
        THEN HttpResponse([error |-> <<"Duration", "exceeds", "maximum">>], 400)
        ELSE IF Len(body.justification) < MinJustificationLength
        THEN HttpResponse([error |-> <<"Justification", "must", "be", "at", "least", "10", "characters">>], 400)
        ELSE NoResponse

\* lines 162-188
nhi_validate(req, max_duration) ==
    LET body == req.body
        missing == MissingFields(<<"sp_object_id", "scope", "role", "duration_minutes", "workflow_id">>, body)
    IN  IF ~req.json
        THEN HttpResponse([error |-> <<"Invalid", "JSON", "body">>], 400)
        ELSE IF missing # <<>>
        THEN HttpResponse([error |-> <<"Missing", "required", "fields:">> \o missing], 400)
        ELSE IF body.duration_minutes > max_duration
        THEN HttpResponse([error |-> <<"Duration", "exceeds", "maximum">>], 400)
        ELSE NoResponse

(***************************************************************************)
(* A request in the handler: pc is the statement it will run next          *)
(* ("start_new", "log_success", "except") or "done" once the response is   *)
(* returned.  granted is bookkeeping: the provider grant call returned.    *)
(***************************************************************************)
Request(handler, req, pc, result, error, granted, response) ==
    [handler |-> handler, body |-> req.body, pc |-> pc, result |-> result, error |-> error,
     granted |-> granted, expiry_time |-> NoneTime, instance_id |-> 0, response |-> response]

(***************************************************************************)
(* Durable Functions.  An orchestration instance keeps its input and its   *)
(* history durably; pos is where the run of the orchestrator function in   *)
(* memory is suspended: "pending" (not running: just started, or the host  *)
(* restarted), "create_timer", "call_activity", "return" or "failed".      *)
(* deliveries, revoked and origin are bookkeeping: the number of           *)
(* executions of the instance's revoke activity, what revoke_admin_access  *)
(* or revoke_nhi_access returned to the last of them (its status and its   *)
(* error), and the request that started the instance (the negated run      *)
(* number for the backup job).                                             *)
(***************************************************************************)
NoRevokeResult == [status |-> "", error |-> NoError]

NewInstance(client_input, origin) ==
    [input |-> client_input,
     history |-> [timer_fired |-> FALSE, activity_done |-> FALSE, activity_failed |-> FALSE],
     pos |-> "pending", deliveries |-> 0, revoked |-> NoRevokeResult, origin |-> origin]

\* client.start_new("revocation_orchestrator", client_input=...)
start_new(orchs, client_input, origin) == Append(orchs, NewInstance(client_input, origin))

\* revocation_orchestrator without the wait of line 339
revocation_orchestrator_no_timer(input_data, history) ==
    LET expiry_time == fromisoformat(input_data.expiry_time)
    IN  IF history.activity_failed
        THEN [at |-> "failed", fire_at |-> expiry_time, activity |-> ""]
        ELSE IF input_data.revocation_type = "group_membership" /\ ~history.activity_done
        THEN [at |-> "call_activity", fire_at |-> expiry_time,
              activity |-> "revoke_group_membership_activity"]
        ELSE IF input_data.revocation_type = "role_assignment" /\ ~history.activity_done
        THEN [at |-> "call_activity", fire_at |-> expiry_time,
              activity |-> "revoke_role_assignment_activity"]
        ELSE [at |-> "return", fire_at |-> expiry_time, activity |-> ""]

\* revocation_orchestrator returning after the timer without lines 342-345
revocation_orchestrator_without_activity(input_data, history) ==
    LET expiry_time == fromisoformat(input_data.expiry_time)
    IN  IF ~history.timer_fired
        THEN [at |-> "create_timer", fire_at |-> expiry_time, activity |-> ""]
        ELSE [at |-> "return", fire_at |-> expiry_time, activity |-> ""]

\* lines 329-347: the orchestrator function run against the instance's history;
\* the result is the statement at which the run suspends or ends.
revocation_orchestrator(input_data, history) ==
    LET expiry_time == fromisoformat(input_data.expiry_time)
    IN  IF ~history.timer_fired
        THEN [at |-> "create_timer", fire_at |-> expiry_time, activity |-> ""]
        ELSE IF history.activity_failed
        THEN [at |-> "failed", fire_at |-> expiry_time, activity |-> ""]
        ELSE IF input_data.revocation_type = "group_membership" /\ ~history.activity_done
        THEN [at |-> "call_activity", fire_at |-> expiry_time,
              activity |-> "revoke_group_membership_activity"]
        ELSE IF input_data.revocation_type = "role_assignment" /\ ~history.activity_done
        THEN [at |-> "call_activity", fire_at |-> expiry_time,
              activity |-> "revoke_role_assignment_activity"]
        ELSE [at |-> "return", fire_at |-> expiry_time, activity |-> ""]

(***************************************************************************)
(* Initial state: nothing granted, nothing scheduled, nothing logged.      *)
(* environ is the deployment: whether DCR_ENDPOINT and DCR_RULE_ID are     *)
(* set, and whether the Logs Ingestion sink accepts uploads.               *)
(***************************************************************************)
Environments ==
    {[DCR_CONFIGURED |-> TRUE, SINK_UP |-> TRUE],
     [DCR_CONFIGURED |-> TRUE, SINK_UP |-> FALSE],
     [DCR_CONFIGURED |-> FALSE, SINK_UP |-> TRUE]}

Init ==
    /\ clock = 0
    /\ members = {}
    /\ assignments = {}
    /\ uuids = 0
    /\ reqs = <<>>
    /\ orchestrations = <<>>
    /\ audit = [request |-> [r \in 1..MaxGrants |-> <<>>],
                 activity |-> [i \in 1..MaxGrants |-> <<>>],
                 backup |-> <<>>]
    /\ backup = [pc |-> "idle", runs |-> 0, kv_result |-> NoNhiResult,
                 stor_result |-> NoNhiResult, expiry_time |-> NoneTime]
    /\ environ \in Environments

(***************************************************************************)
(* The clock.  A second may pass while a handler is between two of its     *)
(* readings of the clock (Tick), and the system may sit idle until a       *)
(* pending timer is due (Sleep).                                           *)
(***************************************************************************)
\* the provider grants asked for so far, and the handlers that have not returned
GrantsAskedFor == Len(reqs) + backup.runs + backup.runs

HandlersInFlight ==
    Cardinality({r \in 1..Len(reqs) : reqs[r].pc # "done"})
    + (IF backup.pc # "idle" THEN 1 ELSE 0)

BetweenClockReadings ==
    \/ \E r \in 1..Len(reqs) : reqs[r].pc = "start_new"
    \/ backup.pc \in {"grant_storage", "start_new"}

Tick ==
    /\ BetweenClockReadings
    /\ clock % SecondsPerMinute < MaxSkew
    /\ clock' = clock + 1
    /\ UNCHANGED <<members, assignments, uuids, reqs, orchestrations, audit, backup, environ>>

Sleep ==
    /\ \E i \in 1..Len(orchestrations) :
          /\ ~orchestrations[i].history.timer_fired
          /\ fromisoformat(orchestrations[i].input.expiry_time) > clock
          /\ clock' = fromisoformat(orchestrations[i].input.expiry_time)
    /\ UNCHANGED <<members, assignments, uuids, reqs, orchestrations, audit, backup, environ>>

(***************************************************************************)
(* POST /human-access                                                      *)
(***************************************************************************)
\* admin_access_request calling the provider before it checks duration and
\* justification
admin_access_request_grant_first(req, fault) ==
    LET rejected == admin_validate(req, MaxDurationSetting)
        body == req.body
        complete == req.json /\ MissingFields(<<"user_id", "group_id", "duration_minutes",
                                                "justification">>, body) = <<>>
        grant == grant_admin_access(members, clock, body.user_id, body.group_id,
                                    body.duration_minutes, body.justification,
                                    Get(body, "ticket_id", ""), fault)
    IN  /\ GrantsAskedFor + 1 <= MaxGrants
        /\ HandlersInFlight < MaxInFlight
        /\ IF rejected # NoResponse
           THEN /\ reqs' = Append(reqs, Request("admin_access_request", req, "done",
                                                NoAdminResult, NoError, FALSE, rejected))
                /\ members' = IF complete THEN grant.members ELSE members
           ELSE /\ members' = grant.members
                /\ reqs' = Append(reqs, Request("admin_access_request", req,
                                                IF grant.raised THEN "except" ELSE "start_new",
                                                grant.result, grant.error, ~grant.raised,
                                                NoResponse))
        /\ UNCHANGED <<clock, assignments, uuids, orchestrations, audit, backup, environ>>

\* lines 40-85: validation and the provider grant
admin_access_request(req, fault) ==
    LET rejected == admin_validate(req, MaxDurationSetting)
        body == req.body
        grant == grant_admin_access(members, clock, body.user_id, body.group_id,
                                    body.duration_minutes, body.justification,
                                    Get(body, "ticket_id", ""), fault)
    IN  /\ GrantsAskedFor + 1 <= MaxGrants
        /\ HandlersInFlight < MaxInFlight
        /\ IF rejected # NoResponse
           THEN /\ reqs' = Append(reqs, Request("admin_access_request", req, "done",
                                                NoAdminResult, NoError, FALSE, rejected))
                /\ UNCHANGED members
           ELSE /\ members' = grant.members
                /\ reqs' = Append(reqs, Request("admin_access_request", req,
                                                IF grant.raised THEN "except" ELSE "start_new",
                                                grant.result, grant.error, ~grant.raised,
                                                NoResponse))
        /\ UNCHANGED <<clock, assignments, uuids, orchestrations, audit, backup, environ>>

\* lines 87-120 with the audit record written before the scheduler is asked
admin_access_request_start_new_after_audit(r, fault) ==
    LET body == reqs[r].body
        result == reqs[r].result
        expiry_time == clock + timedelta(body.duration_minutes)
        client_input == [revocation_type |-> "group_membership", user_id |-> body.user_id,
                         group_id |-> body.group_id, expiry_time |-> isoformat(expiry_time)]
        logged == log_access_event(audit, environ,
                      [event_type |-> "AccessGrant", identity_type |-> "human",
                       principal_id |-> body.user_id, target |-> body.group_id,
                       target_type |-> "EntraGroup",
                       duration_minutes |-> body.duration_minutes,
                       expires_at |-> result.expires_at, result |-> "Success"],
                      [by |-> "request", id |-> r])
    IN  /\ reqs[r].handler = "admin_access_request"
        /\ reqs[r].pc = "start_new"
        /\ audit' = logged.audit
        /\ IF fault
           THEN /\ reqs' = [reqs EXCEPT ![r].pc = "except", ![r].error = SchedulerError,
                                        ![r].expiry_time = isoformat(expiry_time)]
                /\ UNCHANGED orchestrations
           ELSE /\ orchestrations' = start_new(orchestrations, client_input, r)
                /\ reqs' = [reqs EXCEPT ![r].pc = "done",
                                        ![r].expiry_time = isoformat(expiry_time),
                                        ![r].instance_id = Len(orchestrations) + 1,
                                        ![r].response = HttpResponse(
                                            result @@ [orchestrator_instance_id |->
                                                           Len(orchestrations) + 1],
                                            200)]
        /\ UNCHANGED <<clock, members, assignments, uuids, backup, environ>>

\* lines 87-98: schedule the revocation
admin_access_request_start_new(r, fault) ==
    LET body == reqs[r].body
        expiry_time == clock + timedelta(body.duration_minutes)
        client_input == [revocation_type |-> "group_membership", user_id |-> body.user_id,
                         group_id |-> body.group_id, expiry_time |-> isoformat(expiry_time)]
    IN  /\ reqs[r].handler = "admin_access_request"
        /\ reqs[r].pc = "start_new"
        /\ IF fault
           THEN /\ reqs' = [reqs EXCEPT ![r].pc = "except", ![r].error = SchedulerError,
                                        ![r].expiry_time = isoformat(expiry_time)]
                /\ UNCHANGED orchestrations
           ELSE /\ orchestrations' = start_new(orchestrations, client_input, r)
                /\ reqs' = [reqs EXCEPT ![r].pc = "log_success",
                                        ![r].expiry_time = isoformat(expiry_time),
                                        ![r].instance_id = Len(orchestrations) + 1]
        /\ UNCHANGED <<clock, members, assignments, uuids, audit, backup, environ>>

\* lines 100-120: audit the grant and answer 200
admin_access_request_log_success(r) ==
    LET body == reqs[r].body
        result == reqs[r].result
        logged == log_access_event(audit, environ,
                      [event_type |-> "AccessGrant", identity_type |-> "human",
                       principal_id |-> body.user_id, target |-> body.group_id,
                       target_type |-> "EntraGroup",
                       duration_minutes |-> body.duration_minutes,
                       expires_at |-> result.expires_at, result |-> "Success"],
                      [by |-> "request", id |-> r])
    IN  /\ reqs[r].handler = "admin_access_request"
        /\ reqs[r].pc = "log_success"
        /\ audit' = logged.audit
        /\ reqs' = IF logged.raised
                   THEN [reqs EXCEPT ![r].pc = "except", ![r].error = AuditError]
                   ELSE [reqs EXCEPT ![r].pc = "done",
                            ![r].response = HttpResponse(
                                result @@ [orchestrator_instance_id |-> reqs[r].instance_id],
                                200)]
        /\ UNCHANGED <<clock, members, assignments, uuids, orchestrations, backup, environ>>

\* the except clause answering 200 instead of 500
admin_access_request_except_status_200(r) ==
    LET body == reqs[r].body
        logged == log_access_event(audit, environ,
                      [event_type |-> "AccessGrant", identity_type |-> "human",
                       principal_id |-> body.user_id, target |-> body.group_id,
                       target_type |-> "EntraGroup",
                       duration_minutes |-> body.duration_minutes,
                       result |-> "Failed", error_message |-> reqs[r].error],
                      [by |-> "request", id |-> r])
    IN  /\ reqs[r].handler = "admin_access_request"
        /\ reqs[r].pc = "except"
        /\ audit' = logged.audit
        /\ reqs' = [reqs EXCEPT ![r].pc = "done",
                       ![r].response = IF logged.raised
                                       THEN HttpResponse(<<>>, 500)
                                       ELSE HttpResponse([error |-> reqs[r].error], 200)]
        /\ UNCHANGED <<clock, members, assignments, uuids, orchestrations, backup, environ>>

\* lines 122-142: any exception of lines 78-120
admin_access_request_except(r) ==
    LET body == reqs[r].body
        logged == log_access_event(audit, environ,
                      [event_type |-> "AccessGrant", identity_type |-> "human",
                       principal_id |-> body.user_id, target |-> body.group_id,
                       target_type |-> "EntraGroup",
                       duration_minutes |-> body.duration_minutes,
                       result |-> "Failed", error_message |-> reqs[r].error],
                      [by |-> "request", id |-> r])
    IN  /\ reqs[r].handler = "admin_access_request"
        /\ reqs[r].pc = "except"
        /\ audit' = logged.audit
        /\ reqs' = [reqs EXCEPT ![r].pc = "done",
                       ![r].response = IF logged.raised
                                       THEN HttpResponse(<<>>, 500)
                                       ELSE HttpResponse([error |-> reqs[r].error], 500)]
        /\ UNCHANGED <<clock, members, assignments, uuids, orchestrations, backup, environ>>

(***************************************************************************)
(* POST /nhi-access                                                        *)
(***************************************************************************)
\* lines 160-197: validation and the provider grant
nhi_access_request(req, fault) ==
    LET rejected == nhi_validate(req, MaxDurationSetting)
        body == req.body
        grant == grant_nhi_access(assignments, uuids, clock, body.sp_object_id, body.scope,
                                  body.role, body.duration_minutes, body.workflow_id, fault)
    IN  /\ GrantsAskedFor + 1 <= MaxGrants
        /\ HandlersInFlight < MaxInFlight
        /\ IF rejected # NoResponse
           THEN /\ reqs' = Append(reqs, Request("nhi_access_request", req, "done",
                                                NoNhiResult, NoError, FALSE, rejected))
                /\ UNCHANGED <<assignments, uuids>>
           ELSE /\ assignments' = grant.assignments
                /\ uuids' = grant.uuids
                /\ reqs' = Append(reqs, Request("nhi_access_request", req,
                                                IF grant.raised THEN "except" ELSE "start_new",
                                                grant.result, grant.error, ~grant.raised,
                                                NoResponse))
        /\ UNCHANGED <<clock, members, orchestrations, audit, backup, environ>>

\* lines 199-212: schedule the revocation
nhi_access_request_start_new(r, fault) ==
    LET body == reqs[r].body
        expiry_time == clock + timedelta(body.duration_minutes)
        client_input == [revocation_type |-> "role_assignment",
                         assignment_id |-> reqs[r].result.assignment_id,
                         sp_object_id |-> body.sp_object_id, scope |-> body.scope,
                         role |-> body.role, expiry_time |-> isoformat(expiry_time)]
    IN  /\ reqs[r].handler = "nhi_access_request"
        /\ reqs[r].pc = "start_new"
        /\ IF fault
           THEN /\ reqs' = [reqs EXCEPT ![r].pc = "except", ![r].error = SchedulerError,
                                        ![r].expiry_time = isoformat(expiry_time)]
                /\ UNCHANGED orchestrations
           ELSE /\ orchestrations' = start_new(orchestrations, client_input, r)
                /\ reqs' = [reqs EXCEPT ![r].pc = "log_success",
                                        ![r].expiry_time = isoformat(expiry_time),
                                        ![r].instance_id = Len(orchestrations) + 1]
        /\ UNCHANGED <<clock, members, assignments, uuids, audit, backup, environ>>

\* lines 214-234: audit the grant and answer 200
nhi_access_request_log_success(r) ==
    LET body == reqs[r].body
        result == reqs[r].result
        logged == log_access_event(audit, environ,
                      [event_type |-> "AccessGrant", identity_type |-> "nhi",
                       principal_id |-> body.sp_object_id, target |-> body.scope,
                       target_type |-> "AzureResource", role |-> body.role,
                       duration_minutes |-> body.duration_minutes,
                       expires_at |-> result.expires_at, result |-> "Success"],
                      [by |-> "request", id |-> r])
    IN  /\ reqs[r].handler = "nhi_access_request"
        /\ reqs[r].pc = "log_success"
        /\ audit' = logged.audit
        /\ reqs' = IF logged.raised
                   THEN [reqs EXCEPT ![r].pc = "except", ![r].error = AuditError]
                   ELSE [reqs EXCEPT ![r].pc = "done",
                            ![r].response = HttpResponse(
                                result @@ [orchestrator_instance_id |-> reqs[r].instance_id],
                                200)]
        /\ UNCHANGED <<clock, members, assignments, uuids, orchestrations, backup, environ>>

\* lines 236-257: any exception of lines 190-234
nhi_access_request_except(r) ==
    LET body == reqs[r].body
        logged == log_access_event(audit, environ,
                      [event_type |-> "AccessGrant", identity_type |-> "nhi",
                       principal_id |-> body.sp_object_id, target |-> body.scope,
                       target_type |-> "AzureResource", role |-> body.role,
                       duration_minutes |-> body.duration_minutes,
                       result |-> "Failed", error_message |-> reqs[r].error],
                      [by |-> "request", id |-> r])
    IN  /\ reqs[r].handler = "nhi_access_request"
        /\ reqs[r].pc = "except"
        /\ audit' = logged.audit
        /\ reqs' = [reqs EXCEPT ![r].pc = "done",
                       ![r].response = IF logged.raised
                                       THEN HttpResponse(<<>>, 500)
                                       ELSE HttpResponse([error |-> reqs[r].error], 500)]
        /\ UNCHANGED <<clock, members, assignments, uuids, orchestrations, backup, environ>>

(***************************************************************************)
(* The timer-triggered backup job, lines 264-322.  backup.pc is the        *)
(* statement the run will execute next; "idle" between runs.  configured   *)
(* is whether this run finds BACKUP_SP_OBJECT_ID, KEYVAULT_RESOURCE_ID and *)
(* STORAGE_RESOURCE_ID in os.environ.  The except clause only logs.        *)
(***************************************************************************)
\* lines 271-290: the Key Vault grant
backup_job_access_grant(configured, fault) ==
    LET grant == grant_nhi_access(assignments, uuids, clock, BACKUP_SP_OBJECT_ID,
                                  KEYVAULT_RESOURCE_ID, "Key Vault Secrets User",
                                  BackupJobDuration, "nightly-backup", fault)
    IN  /\ backup.pc = "idle"
        /\ GrantsAskedFor + 2 <= MaxGrants
        /\ HandlersInFlight < MaxInFlight
        /\ IF ~configured
           THEN /\ backup' = [backup EXCEPT !.runs = @ + 1]
                /\ UNCHANGED <<assignments, uuids>>
           ELSE /\ assignments' = grant.assignments
                /\ uuids' = grant.uuids
                /\ backup' = [backup EXCEPT !.runs = @ + 1,
                                            !.pc = IF grant.raised THEN "idle" ELSE "grant_storage",
                                            !.kv_result = grant.result,
                                            !.stor_result = NoNhiResult,
                                            !.expiry_time = NoneTime]
        /\ UNCHANGED <<clock, members, reqs, orchestrations, audit, environ>>

\* lines 292-299: the Storage grant
backup_job_grant_storage(fault) ==
    LET grant == grant_nhi_access(assignments, uuids, clock, BACKUP_SP_OBJECT_ID,
                                  STORAGE_RESOURCE_ID, "Storage Blob Data Contributor",
                                  BackupJobDuration, "nightly-backup", fault)
    IN  /\ backup.pc = "grant_storage"
        /\ assignments' = grant.assignments
        /\ uuids' = grant.uuids
        /\ backup' = [backup EXCEPT !.pc = IF grant.raised THEN "idle" ELSE "start_new",
                                    !.stor_result = grant.result]
        /\ UNCHANGED <<clock, members, reqs, orchestrations, audit, environ>>

BackupClientInput(grant_result, scope, role, expiry_time) ==
    [revocation_type |-> "role_assignment", assignment_id |-> grant_result.assignment_id,
     sp_object_id |-> BACKUP_SP_OBJECT_ID, scope |-> scope, role |-> role,
     expiry_time |-> expiry_time]

\* lines 301-317, first turn of the loop: the Key Vault revocation
backup_job_start_new(fault) ==
    LET expiry_time == isoformat(clock + timedelta(BackupJobDuration))
    IN  /\ backup.pc = "start_new"
        /\ IF fault
           THEN /\ backup' = [backup EXCEPT !.pc = "idle", !.expiry_time = expiry_time]
                /\ UNCHANGED orchestrations
           ELSE /\ orchestrations' = start_new(orchestrations,
                                        BackupClientInput(backup.kv_result, KEYVAULT_RESOURCE_ID,
                                                          "Key Vault Secrets User", expiry_time),
                                        0 - backup.runs)
                /\ backup' = [backup EXCEPT !.pc = "start_new_storage",
                                            !.expiry_time = expiry_time]
        /\ UNCHANGED <<clock, members, assignments, uuids, reqs, audit, environ>>

\* lines 303-317, second turn of the loop: the Storage revocation
backup_job_start_new_storage(fault) ==
    /\ backup.pc = "start_new_storage"
    /\ IF fault
       THEN UNCHANGED orchestrations
       ELSE orchestrations' = start_new(orchestrations,
                                BackupClientInput(backup.stor_result, STORAGE_RESOURCE_ID,
                                                  "Storage Blob Data Contributor",
                                                  backup.expiry_time),
                                0 - backup.runs)
    /\ backup' = [backup EXCEPT !.pc = "idle"]
    /\ UNCHANGED <<clock, members, assignments, uuids, reqs, audit, environ>>

(***************************************************************************)
(* The revocation orchestration.                                           *)
(***************************************************************************)
\* the host runs (or, after a restart, replays) the orchestrator function
orchestrator_replay(i) ==
    /\ orchestrations[i].pos = "pending"
    /\ orchestrations' = [orchestrations EXCEPT
          ![i].pos = revocation_orchestrator(orchestrations[i].input,
                                             orchestrations[i].history).at]
    /\ UNCHANGED <<clock, members, assignments, uuids, reqs, audit, backup, environ>>

\* the host process is recycled while the instance waits
host_restart(i) ==
    /\ orchestrations[i].pos \in {"create_timer", "call_activity"}
    /\ orchestrations' = [orchestrations EXCEPT ![i].pos = "pending"]
    /\ UNCHANGED <<clock, members, assignments, uuids, reqs, audit, backup, environ>>

\* line 339: the durable timer is due
timer_fired(i) ==
    LET o == orchestrations[i]
        at == revocation_orchestrator(o.input, o.history)
        history == [o.history EXCEPT !.timer_fired = TRUE]
    IN  /\ o.pos = "create_timer"
        /\ at.at = "create_timer"
        /\ clock >= at.fire_at
        /\ orchestrations' = [orchestrations EXCEPT
              ![i].history = history,
              ![i].pos = revocation_orchestrator(o.input, history).at]
        /\ UNCHANGED <<clock, members, assignments, uuids, reqs, audit, backup, environ>>

\* what one execution of a revoke activity leaves in the instance: raised is whether
\* the activity function ended with an exception, acked = FALSE is an execution whose
\* completion the host did not record, so it is delivered again
ActivityExecuted(o, revoke, raised, acked) ==
    LET history == [o.history EXCEPT !.activity_done = acked /\ ~raised,
                                     !.activity_failed = acked /\ raised]
    IN  [o EXCEPT !.history = history,
                  !.deliveries = @ + 1,
                  !.revoked = [status |-> revoke.result.status, error |-> revoke.result.error],
                  !.pos = revocation_orchestrator(o.input, history).at]

\* lines 350-375
revoke_group_membership_activity(i, fault, acked) ==
    LET o == orchestrations[i]
        input_data == o.input
        revoke == revoke_admin_access(members, clock, input_data.user_id,
                                      input_data.group_id, fault)
        logged == log_access_event(audit, environ,
                      [event_type |-> "AccessRevoke", identity_type |-> "human",
                       principal_id |-> input_data.user_id,
                       target |-> input_data.group_id, target_type |-> "EntraGroup",
                       result |-> "Success"],
                      [by |-> "activity", id |-> i])
    IN  /\ o.pos = "call_activity"
        /\ revocation_orchestrator(o.input, o.history).activity = "revoke_group_membership_activity"
        /\ o.deliveries < MaxDeliveries
        /\ acked \/ o.deliveries + 1 < MaxDeliveries
        /\ members' = revoke.members
        /\ audit' = IF revoke.raised THEN audit ELSE logged.audit
        /\ orchestrations' = [orchestrations EXCEPT
              ![i] = ActivityExecuted(o, revoke, revoke.raised \/ logged.raised, acked)]
        /\ UNCHANGED <<clock, assignments, uuids, reqs, backup, environ>>

\* lines 378-403
revoke_role_assignment_activity(i, fault, acked) ==
    LET o == orchestrations[i]
        input_data == o.input
        revoke == revoke_nhi_access(assignments, clock, input_data.assignment_id, fault)
        logged == log_access_event(audit, environ,
                      [event_type |-> "AccessRevoke", identity_type |-> "nhi",
                       principal_id |-> input_data.sp_object_id,
                       target |-> input_data.scope, target_type |-> "AzureResource",
                       role |-> Get(input_data, "role", ""), result |-> "Success"],
                      [by |-> "activity", id |-> i])
    IN  /\ o.pos = "call_activity"
        /\ revocation_orchestrator(o.input, o.history).activity = "revoke_role_assignment_activity"
        /\ o.deliveries < MaxDeliveries
        /\ acked \/ o.deliveries + 1 < MaxDeliveries
        /\ assignments' = revoke.assignments
        /\ audit' = IF revoke.raised THEN audit ELSE logged.audit
        /\ orchestrations' = [orchestrations EXCEPT
              ![i] = ActivityExecuted(o, revoke, revoke.raised \/ logged.raised, acked)]
        /\ UNCHANGED <<clock, members, uuids, reqs, backup, environ>>

Next ==
    \/ Tick
    \/ Sleep
    \/ \E req \in HttpRequests(HumanBodies), fault \in BOOLEAN : admin_access_request(req, fault)
    \/ \E r \in 1..Len(reqs), fault \in BOOLEAN : admin_access_request_start_new(r, fault)
    \/ \E r \in 1..Len(reqs) : admin_access_request_log_success(r)
    \/ \E r \in 1..Len(reqs) : admin_access_request_except(r)
    \/ \E req \in HttpRequests(NhiBodies), fault \in BOOLEAN : nhi_access_request(req, fault)
    \/ \E r \in 1..Len(reqs), fault \in BOOLEAN : nhi_access_request_start_new(r, fault)
    \/ \E r \in 1..Len(reqs) : nhi_access_request_log_success(r)
    \/ \E r \in 1..Len(reqs) : nhi_access_request_except(r)
    \/ \E configured, fault \in BOOLEAN : backup_job_access_grant(configured, fault)
    \/ \E fault \in BOOLEAN : backup_job_grant_storage(fault)
    \/ \E fault \in BOOLEAN : backup_job_start_new(fault)
    \/ \E fault \in BOOLEAN : backup_job_start_new_storage(fault)
    \/ \E i \in 1..Len(orchestrations) : orchestrator_replay(i)
    \/ \E i \in 1..Len(orchestrations) : host_restart(i)
    \/ \E i \in 1..Len(orchestrations) : timer_fired(i)
    \/ \E i \in 1..Len(orchestrations), fault, acked \in BOOLEAN :
          revoke_group_membership_activity(i, fault, acked)
    \/ \E i \in 1..Len(orchestrations), fault, acked \in BOOLEAN :
          revoke_role_assignment_activity(i, fault, acked)

Spec == Init /\ [][Next]_vars

(***************************************************************************)
(* Properties.                                                             *)
(***************************************************************************)
\* the orchestration instances started by a request (or, negated, a backup run)
InstancesOf(origin) == {i \in 1..Len(orchestrations) : orchestrations[i].origin = origin}

\* the provider grant call of request r raised
GrantFailed(r) == ~reqs[r].granted /\ reqs[r].error # NoError

\* the grant call of request r got as far as the provider
ReachedProvider(r) == reqs[r].granted \/ reqs[r].error = ProviderError

\* no other human request was granted the same (user, group)
SoleGrant(r) ==
    \A q \in 1..Len(reqs) :
        (q # r /\ reqs[q].handler = "admin_access_request" /\ reqs[q].granted)
            => ~(reqs[q].body.user_id = reqs[r].body.user_id
                 /\ reqs[q].body.group_id = reqs[r].body.group_id)

\* the access an instance is to revoke is there at the provider
AccessHeld(ms, as, input_data) ==
    IF input_data.revocation_type = "group_membership"
    THEN <<input_data.group_id, input_data.user_id>> \in ms
    ELSE \E a \in as : a.id = input_data.assignment_id

\* C1 (as claimed): every HTTP request whose provider grant succeeded has, once the
\* handler has returned, exactly one revocation orchestration started for it.
C1_EveryGrantHasOneRevocation ==
    \A r \in 1..Len(reqs) :
        (reqs[r].granted /\ reqs[r].pc = "done") => Cardinality(InstancesOf(r)) = 1

\* C2 (as claimed): a human grant of positive duration answered 200 "granted", the
\* only grant of its (user, group), whose revocation lifecycle has run to its end,
\* leaves the user outside the group, and that end comes no earlier than the
\* grant's expires_at.
C2_GrantedThenRevokedAtExpiry ==
    \A r \in 1..Len(reqs) :
        (/\ reqs[r].handler = "admin_access_request"
         /\ reqs[r].response.status_code = 200
         /\ reqs[r].response.json.status = "granted"
         /\ reqs[r].body.duration_minutes > 0
         /\ SoleGrant(r)
         /\ orchestrations[reqs[r].instance_id].pos = "return")
        => /\ clock >= fromisoformat(reqs[r].result.expires_at)
           /\ <<reqs[r].body.group_id, reqs[r].body.user_id>> \notin members

\* C3: a revoke activity has run, or is due to run, only for an instance whose timer
\* has fired and whose expiry_time the clock has reached; an instance whose timer
\* has not fired (also one reloaded after a host restart) has run no revoke.
C3_RevokeNeverBeforeExpiry ==
    \A i \in 1..Len(orchestrations) :
        LET o == orchestrations[i]
        IN  /\ (o.deliveries > 0 \/ o.pos \in {"call_activity", "return", "failed"})
                => (o.history.timer_fired /\ clock >= fromisoformat(o.input.expiry_time))
            /\ ~o.history.timer_fired => o.deliveries = 0

\* a revoke has run for a grant of positive duration, after its expiry
C3_Witness ==
    \E i \in 1..Len(orchestrations) :
        /\ orchestrations[i].deliveries > 0
        /\ orchestrations[i].origin >= 1
        /\ reqs[orchestrations[i].origin].body.duration_minutes > 0
        /\ clock >= fromisoformat(orchestrations[i].input.expiry_time)

\* C4 (as claimed): the expiry_time an orchestration instance was started with equals
\* the expires_at of the grant it revokes.
C4_ScheduledExpiryEqualsExpiresAt ==
    \A i \in 1..Len(orchestrations) :
        LET o == orchestrations[i]
        IN  o.input.expiry_time =
                IF o.origin >= 1 THEN reqs[o.origin].result.expires_at
                ELSE IF o.input.scope = KEYVAULT_RESOURCE_ID THEN backup.kv_result.expires_at
                ELSE backup.stor_result.expires_at

\* C5: a request whose provider grant raised starts no orchestration, and once it has
\* returned it has emitted exactly one audit event, AccessGrant / Failed with the
\* error's message, and answered 500 with that message.
C5_GrantFailureOutcome ==
    \A r \in 1..Len(reqs) :
        GrantFailed(r) =>
            /\ InstancesOf(r) = {}
            /\ reqs[r].instance_id = 0
            /\ reqs[r].pc \in {"except", "done"}
            /\ reqs[r].pc = "except" => audit.request[r] = <<>>
            /\ reqs[r].pc = "done" =>
                  /\ Len(audit.request[r]) = 1
                  /\ audit.request[r][1].EventType = "AccessGrant"
                  /\ audit.request[r][1].Result = "Failed"
                  /\ audit.request[r][1].ErrorMessage = reqs[r].error
                  /\ reqs[r].response.status_code = 500
                  /\ reqs[r].response.json = [error |-> reqs[r].error]

\* a human and an NHI request have both returned after their provider grant raised
C5_Witness ==
    \E r, q \in 1..Len(reqs) :
        /\ reqs[r].handler = "admin_access_request" /\ GrantFailed(r) /\ reqs[r].pc = "done"
        /\ reqs[q].handler = "nhi_access_request" /\ GrantFailed(q) /\ reqs[q].pc = "done"

\* C6 (as claimed): a request whose provider grant succeeded and whose start_new
\* failed is answered as a success.
C6_ScheduleFailureStillGranted ==
    \A r \in 1..Len(reqs) :
        (reqs[r].granted /\ reqs[r].pc = "done" /\ reqs[r].error = SchedulerError)
            => /\ reqs[r].response.status_code = 200
               /\ reqs[r].response.json.status = "granted"

\* C7 (as claimed): every grant attempt that reached the provider has, once its
\* handler has returned, exactly one AccessGrant event, Success exactly when the
\* provider granted; this includes the grants of the backup job.
C7_OneGrantEventMatchingOutcome ==
    /\ \A r \in 1..Len(reqs) :
          (reqs[r].pc = "done" /\ ReachedProvider(r)) =>
              /\ Len(audit.request[r]) = 1
              /\ audit.request[r][1].EventType = "AccessGrant"
              /\ audit.request[r][1].Result = IF reqs[r].granted THEN "Success" ELSE "Failed"
    /\ (backup.pc = "idle" /\ backup.kv_result.status = "granted") =>
          \E k \in 1..Len(audit.backup) :
              /\ audit.backup[k].EventType = "AccessGrant"
              /\ audit.backup[k].Result = "Success"

\* C8: every execution of an instance's revoke activity, also a repeated one, ends
\* without an error and emits exactly one audit event, of type AccessRevoke.
C8_OneRevokeEventPerDelivery ==
    \A i \in 1..Len(orchestrations) :
        /\ Len(audit.activity[i]) = orchestrations[i].deliveries
        /\ \A k \in 1..Len(audit.activity[i]) : audit.activity[i][k].EventType = "AccessRevoke"
        /\ orchestrations[i].pos # "failed"
        /\ ~orchestrations[i].history.activity_failed

\* a group-membership and a role-assignment revocation have each been delivered twice
C8_Witness ==
    \E i, j \in 1..Len(orchestrations) :
        /\ orchestrations[i].input.revocation_type = "group_membership"
        /\ orchestrations[i].deliveries = 2
        /\ Len(audit.activity[i]) = 2
        /\ orchestrations[j].input.revocation_type = "role_assignment"
        /\ orchestrations[j].deliveries = 2
        /\ Len(audit.activity[j]) = 2

\* C9 (as claimed): an execution of a revoke activity after which the access is still
\* there (the provider's remove or delete failed with an unexpected error) records
\* its AccessRevoke event with Result Failed.
C9_UnexpectedRevokeFailureRecordedFailed ==
    [][\A i \in 1..Len(orchestrations) :
          (/\ orchestrations'[i].deliveries = orchestrations[i].deliveries + 1
           /\ AccessHeld(members', assignments', orchestrations[i].input))
          => /\ Len(audit'.activity[i]) > 0
             /\ audit'.activity[i][Len(audit'.activity[i])].Result = "Failed"]_vars

\* C10 (as claimed): no revocation lifecycle is completed while the access it was to
\* revoke is still held (for a group membership: with no other grant of the pair).
C10_CompletedMeansRevoked ==
    \A i \in 1..Len(orchestrations) :
        LET o == orchestrations[i]
        IN  (/\ o.pos = "return"
             /\ o.input.revocation_type = "group_membership" => SoleGrant(o.origin))
            => ~AccessHeld(members, assignments, o.input)

\* C11: every execution of a revoke activity got an answer from revoke_admin_access
\* or revoke_nhi_access (they never raise): "already_revoked" when the provider found
\* the member or assignment absent, "revoked" exactly when the provider removed it;
\* in both cases the activity's event is AccessRevoke with Result Success.
C11_AbsentIsAlreadyRevoked ==
    \A i \in 1..Len(orchestrations) :
        LET o == orchestrations[i]
        IN  o.deliveries > 0 =>
              /\ o.revoked.status \in {"revoked", "already_revoked"}
              /\ o.revoked.error = NotFoundError => o.revoked.status = "already_revoked"
              /\ o.revoked.error = NoError <=> o.revoked.status = "revoked"
              /\ o.pos # "failed"
              /\ Len(audit.activity[i]) = o.deliveries
              /\ audit.activity[i][o.deliveries].EventType = "AccessRevoke"
              /\ audit.activity[i][o.deliveries].Result = "Success"

\* a group-membership and a role-assignment revocation, each delivered again after the
\* access was removed, have both found it absent
C11_Witness ==
    \E i, j \in 1..Len(orchestrations) :
        /\ orchestrations[i].input.revocation_type = "group_membership"
        /\ orchestrations[i].revoked = [status |-> "already_revoked", error |-> NotFoundError]
        /\ orchestrations[j].input.revocation_type = "role_assignment"
        /\ orchestrations[j].revoked = [status |-> "already_revoked", error |-> NotFoundError]

\* request r asked for a membership an earlier request had been granted and no
\* revocation has run yet: the user was a member of the group when r was handled
AlreadyMember(r) ==
    /\ reqs[r].handler = "admin_access_request"
    /\ reqs[r].response.status_code # 400
    /\ \E q \in 1..(r - 1) :
          /\ reqs[q].handler = "admin_access_request"
          /\ reqs[q].granted
          /\ reqs[q].body.user_id = reqs[r].body.user_id
          /\ reqs[q].body.group_id = reqs[r].body.group_id
    /\ \A i \in 1..Len(orchestrations) : orchestrations[i].deliveries = 0

\* C12: grant_admin_access for a user who is already a member returns status
\* "granted" without raising, unless the add failed for another reason; the
\* provider's "already exist" error never leaves it and the user stays a member.
\* Any other error of the add is raised to the handler, which takes its except
\* clause with that error.
C12_AlreadyMemberIsGranted ==
    \A r \in 1..Len(reqs) :
        /\ AlreadyMember(r) =>
              /\ reqs[r].error # AlreadyExistsError
              /\ reqs[r].granted \/ reqs[r].error = ProviderError
              /\ reqs[r].granted => reqs[r].result.status = "granted"
              /\ <<reqs[r].body.group_id, reqs[r].body.user_id>> \in members
        /\ (reqs[r].handler = "admin_access_request" /\ reqs[r].error = ProviderError) =>
              /\ ~reqs[r].granted
              /\ reqs[r].result = NoAdminResult
              /\ reqs[r].pc \in {"except", "done"}
              /\ reqs[r].pc = "done" => reqs[r].response = HttpResponse([error |-> ProviderError], 500)

\* a second grant of a membership the user already holds was answered "granted"
C12_Witness ==
    \E r \in 1..Len(reqs) :
        /\ AlreadyMember(r)
        /\ reqs[r].granted
        /\ reqs[r].pc = "done"
        /\ reqs[r].response.status_code = 200
        /\ reqs[r].response.json.status = "granted"

\* the body of request r carries every field its handler requires
HasRequiredFields(r) ==
    IF reqs[r].handler = "admin_access_request"
    THEN {"user_id", "group_id", "duration_minutes", "justification"} \subseteq DOMAIN reqs[r].body
    ELSE {"sp_object_id", "scope", "role", "duration_minutes", "workflow_id"}
            \subseteq DOMAIN reqs[r].body

\* request r was answered without a provider call and without scheduling anything
NoGrantSideEffect(r) ==
    /\ reqs[r].pc = "done"
    /\ ~reqs[r].granted
    /\ reqs[r].error = NoError
    /\ reqs[r].result.status = ""
    /\ reqs[r].instance_id = 0
    /\ InstancesOf(r) = {}
    /\ audit.request[r] = <<>>

DurationRejection == HttpResponse([error |-> <<"Duration", "exceeds", "maximum">>], 400)

\* C13: a human or NHI request whose duration_minutes is above the ceiling is answered
\* 400 with no provider call and nothing scheduled; a request whose duration_minutes
\* equals the ceiling is not rejected for its duration.
C13_OverCeilingRejected ==
    \A r \in 1..Len(reqs) :
        HasRequiredFields(r) =>
            /\ reqs[r].body.duration_minutes > MaxDurationSetting =>
                  /\ reqs[r].response = DurationRejection
                  /\ NoGrantSideEffect(r)
            /\ reqs[r].body.duration_minutes = MaxDurationSetting =>
                  reqs[r].response # DurationRejection

\* a human and an NHI request above the ceiling have both been rejected
C13_Witness ==
    \E r, q \in 1..Len(reqs) :
        /\ reqs[r].handler = "admin_access_request" /\ HasRequiredFields(r)
        /\ reqs[r].body.duration_minutes = MaxDurationSetting + 1
        /\ reqs[r].response.status_code = 400
        /\ reqs[q].handler = "nhi_access_request" /\ HasRequiredFields(q)
        /\ reqs[q].body.duration_minutes = MaxDurationSetting + 1
        /\ reqs[q].response.status_code = 400

JustificationRejection ==
    HttpResponse([error |-> <<"Justification", "must", "be", "at", "least", "10", "characters">>], 400)

\* C14: a human request within the ceiling whose justification has fewer than 10
\* characters is answered 400 "Justification must be at least 10 characters" with no
\* provider call and nothing scheduled; a justification of exactly 10 characters is
\* not rejected.
C14_ShortJustificationRejected ==
    \A r \in 1..Len(reqs) :
        (/\ reqs[r].handler = "admin_access_request"
         /\ HasRequiredFields(r)
         /\ reqs[r].body.duration_minutes <= MaxDurationSetting) =>
            /\ Len(reqs[r].body.justification) < 10 =>
                  /\ reqs[r].response = JustificationRejection
                  /\ NoGrantSideEffect(r)
            /\ Len(reqs[r].body.justification) = 10 =>
                  /\ reqs[r].response.status_code # 400
                  /\ reqs[r].granted \/ reqs[r].error # NoError

\* a justification of 9 characters was rejected and one of 10 characters went on to
\* the provider
C14_Witness ==
    \E r, q \in 1..Len(reqs) :
        /\ reqs[r].handler = "admin_access_request" /\ HasRequiredFields(r)
        /\ Len(reqs[r].body.justification) = 9
        /\ reqs[r].response = JustificationRejection
        /\ reqs[q].handler = "admin_access_request" /\ HasRequiredFields(q)
        /\ Len(reqs[q].body.justification) = 10
        /\ reqs[q].granted

\* request r passed validation and names a role that ROLE_DEFINITIONS does not hold
UnknownRole(r) ==
    /\ reqs[r].handler = "nhi_access_request"
    /\ HasRequiredFields(r)
    /\ reqs[r].body.duration_minutes <= MaxDurationSetting
    /\ IndexOf(reqs[r].body.scope, "subscriptions") # 0
    /\ reqs[r].body.role \notin DOMAIN ROLE_DEFINITIONS

\* C15: an NHI request for a role that is not a key of ROLE_DEFINITIONS fails in
\* grant_nhi_access with "Unknown role: <name>" before the provider's create call: no
\* role assignment is created for it, no revocation is scheduled, and the handler
\* answers with that error.  No role assignment at the provider names a role
\* definition outside ROLE_DEFINITIONS.
C15_UnknownRoleRejected ==
    /\ \A r \in 1..Len(reqs) :
          UnknownRole(r) =>
              /\ ~reqs[r].granted
              /\ reqs[r].error = <<"Unknown", "role:", reqs[r].body.role>>
              /\ reqs[r].result = NoNhiResult
              /\ InstancesOf(r) = {}
              /\ reqs[r].instance_id = 0
              /\ reqs[r].pc \in {"except", "done"}
              /\ reqs[r].pc = "done" =>
                    reqs[r].response = HttpResponse([error |-> reqs[r].error], 500)
    /\ \A a \in assignments :
          \E role \in DOMAIN ROLE_DEFINITIONS :
              a.role_definition_id[Len(a.role_definition_id)] = ROLE_DEFINITIONS[role]

\* a request for the role "Owner" was answered with the unknown-role error
C15_Witness ==
    \E r \in 1..Len(reqs) :
        /\ UnknownRole(r)
        /\ reqs[r].pc = "done"
        /\ reqs[r].response.status_code = 500
        /\ Contains(Lower(reqs[r].response.json.error), <<"unknown", "role:">>)

\* the reading of the clock from which grant_admin_access computed expires_at
GrantTime(r) ==
    fromisoformat(reqs[r].result.expires_at) - timedelta(reqs[r].body.duration_minutes)

\* q and r are the two human grants of one (user, group): both answered 200, made at
\* the same time, q for the shorter duration, and no third grant of the pair
OverlappingGrants(q, r) ==
    /\ reqs[q].handler = "admin_access_request" /\ reqs[q].response.status_code = 200
    /\ reqs[r].handler = "admin_access_request" /\ reqs[r].response.status_code = 200
    /\ reqs[q].body.user_id = reqs[r].body.user_id
    /\ reqs[q].body.group_id = reqs[r].body.group_id
    /\ 0 < reqs[q].body.duration_minutes
    /\ reqs[q].body.duration_minutes < reqs[r].body.duration_minutes
    /\ GrantTime(q) = GrantTime(r)
    /\ \A p \in 1..Len(reqs) :
          (p \notin {q, r} /\ reqs[p].handler = "admin_access_request" /\ reqs[p].granted)
              => ~(reqs[p].body.user_id = reqs[r].body.user_id
                   /\ reqs[p].body.group_id = reqs[r].body.group_id)

\* C16: two overlapping human grants of the same (user, group) both succeed and have
\* two orchestration instances of their own, each expiring no earlier than its grant.
\* Once either instance has removed the user, the user is outside the group whatever
\* the other grant's window, and the other instance's revoke finds the member absent
\* and ends without an error.
C16_ShorterGrantRevokesBoth ==
    \A q, r \in 1..Len(reqs) :
        OverlappingGrants(q, r) =>
            LET oq == orchestrations[reqs[q].instance_id]
                orr == orchestrations[reqs[r].instance_id]
                member == <<reqs[r].body.group_id, reqs[r].body.user_id>> \in members
            IN  /\ reqs[q].instance_id # reqs[r].instance_id
                /\ InstancesOf(q) = {reqs[q].instance_id}
                /\ InstancesOf(r) = {reqs[r].instance_id}
                /\ fromisoformat(oq.input.expiry_time) >= fromisoformat(reqs[q].result.expires_at)
                /\ fromisoformat(orr.input.expiry_time) >= fromisoformat(reqs[r].result.expires_at)
                /\ (oq.revoked.status = "revoked" \/ orr.revoked.status = "revoked") => ~member
                /\ (oq.revoked.status = "revoked" /\ oq.deliveries = 1 /\ orr.deliveries > 0)
                      => orr.revoked.status = "already_revoked"
                /\ orr.pos # "failed" /\ ~orr.history.activity_failed
                /\ oq.pos # "failed" /\ ~oq.history.activity_failed

\* the shorter grant's revocation has removed the user while the longer grant's
\* window is open and its instance still waits for its timer
C16_Witness ==
    \E q, r \in 1..Len(reqs) :
        /\ OverlappingGrants(q, r)
        /\ orchestrations[reqs[q].instance_id].revoked.status = "revoked"
        /\ clock < fromisoformat(orchestrations[reqs[r].instance_id].input.expiry_time)
        /\ clock < fromisoformat(reqs[r].result.expires_at)
        /\ ~orchestrations[reqs[r].instance_id].history.timer_fired
        /\ <<reqs[r].body.group_id, reqs[r].body.user_id>> \notin members

\* the longer grant's revocation has then run, found the member absent and completed
C16_LaterFiringCompleted ==
    \E q, r \in 1..Len(reqs) :
        /\ OverlappingGrants(q, r)
        /\ orchestrations[reqs[q].instance_id].revoked.status = "revoked"
        /\ orchestrations[reqs[q].instance_id].deliveries = 1
        /\ orchestrations[reqs[r].instance_id].pos = "return"
        /\ orchestrations[reqs[r].instance_id].revoked =
              [status |-> "already_revoked", error |-> NotFoundError]

\* what log_access_event does with an event under the deployment's settings
DeliveryUnder(env) ==
    IF ~env.DCR_CONFIGURED THEN "skipped" ELSE IF env.SINK_UP THEN "uploaded" ELSE "failed"

\* C17: log_access_event never raises to its caller.  Whether the sink is not
\* configured, accepts the upload or fails, a request that reached the provider ends
\* with one audit event, handed over once, and with the response its grant and its
\* scheduling decide (200 exactly when both succeeded, else 500 with their error), and
\* every execution of a revoke activity ends without an error.
C17_AuditNeverRaises ==
    /\ \A r \in 1..Len(reqs) :
          /\ reqs[r].error # AuditError
          /\ \A k \in 1..Len(audit.request[r]) :
                audit.request[r][k].Delivery = DeliveryUnder(environ)
          /\ (reqs[r].pc = "done" /\ reqs[r].response.status_code # 400) =>
                /\ Len(audit.request[r]) = 1
                /\ reqs[r].response.status_code =
                      IF reqs[r].granted /\ reqs[r].error = NoError THEN 200 ELSE 500
                /\ reqs[r].response.status_code = 500 =>
                      reqs[r].response.json = [error |-> reqs[r].error]
                /\ reqs[r].response.status_code = 200 =>
                      /\ InstancesOf(r) = {reqs[r].instance_id}
                      /\ audit.request[r][1].Result = "Success"
    /\ \A i \in 1..Len(orchestrations) :
          /\ Len(audit.activity[i]) = orchestrations[i].deliveries
          /\ \A k \in 1..Len(audit.activity[i]) :
                audit.activity[i][k].Delivery = DeliveryUnder(environ)
          /\ orchestrations[i].pos # "failed"
          /\ ~orchestrations[i].history.activity_failed

\* with the sink failing every upload, a request was answered 200 and its revocation
\* has completed
C17_Witness ==
    /\ environ = [DCR_CONFIGURED |-> TRUE, SINK_UP |-> FALSE]
    /\ \E r \in 1..Len(reqs) :
          /\ reqs[r].response.status_code = 200
          /\ audit.request[r][1].Delivery = "failed"
          /\ orchestrations[reqs[r].instance_id].pos = "return"
          /\ audit.activity[reqs[r].instance_id][1].Delivery = "failed"

\* C18: an execution of a revoke activity, a repeated one included, adds nothing at
\* the provider and removes nothing but the membership or assignment of its own
\* ScheduledRevocation, and ends without an error; a repeated execution that finds
\* its target gone leaves the provider as it was and is answered "already_revoked".
C18_RevokeTwiceSameAsOnce ==
    [][\A i \in 1..Len(orchestrations) :
          orchestrations'[i].deliveries = orchestrations[i].deliveries + 1 =>
              LET input_data == orchestrations[i].input
                  own_member ==
                      IF input_data.revocation_type = "group_membership"
                      THEN {<<input_data.group_id, input_data.user_id>>} ELSE {}
                  own_assignment ==
                      IF input_data.revocation_type = "role_assignment"
                      THEN {a \in assignments : a.id = input_data.assignment_id} ELSE {}
              IN  /\ members' \subseteq members
                  /\ (members \ members') \subseteq own_member
                  /\ assignments' \subseteq assignments
                  /\ (assignments \ assignments') \subseteq own_assignment
                  /\ uuids' = uuids
                  /\ orchestrations'[i].pos # "failed"
                  /\ ~orchestrations'[i].history.activity_failed
                  /\ (/\ orchestrations[i].deliveries >= 1
                      /\ ~AccessHeld(members, assignments, input_data)) =>
                        /\ members' = members
                        /\ assignments' = assignments
                        /\ orchestrations'[i].revoked.status = "already_revoked"]_vars

\* a second execution of a group-membership revocation found its target gone while
\* another user was a member of the group
C18_Witness ==
    \E i \in 1..Len(orchestrations) :
        /\ orchestrations[i].input.revocation_type = "group_membership"
        /\ orchestrations[i].deliveries = 2
        /\ orchestrations[i].revoked = [status |-> "already_revoked", error |-> NotFoundError]
        /\ \E u \in Users : /\ u # orchestrations[i].input.user_id
                             /\ <<orchestrations[i].input.group_id, u>> \in members

\* the required fields of a handler, in the order the handler lists them
RequiredFields(handler) ==
    IF handler = "admin_access_request"
    THEN <<"user_id", "group_id", "duration_minutes", "justification">>
    ELSE <<"sp_object_id", "scope", "role", "duration_minutes", "workflow_id">>

\* C19: a request that validation rejects (answered 400) changes nothing: group
\* members, role assignments, orchestration instances and audit events are after the
\* rejection what they were before it.  A request without a required field is
\* answered 400 with "Missing required fields:" and the list of the fields it lacks.
C19_RejectionChangesNothing ==
    [][(/\ Len(reqs') = Len(reqs) + 1
        /\ reqs'[Len(reqs')].response.status_code = 400) =>
            LET new == reqs'[Len(reqs')]
                missing == SelectSeq(RequiredFields(new.handler),
                                     LAMBDA f : f \notin DOMAIN new.body)
            IN  /\ members' = members
                /\ assignments' = assignments
                /\ uuids' = uuids
                /\ orchestrations' = orchestrations
                /\ audit' = audit
                /\ backup' = backup
                /\ new.pc = "done"
                /\ (new.body # <<>> /\ missing # <<>>) =>
                      new.response.json.error = <<"Missing", "required", "fields:">> \o missing
                /\ (new.body # <<>> /\ missing = <<>>) =>
                      ~Contains(new.response.json.error, <<"Missing">>)]_vars

\* after a grant that left a member, an orchestration and an audit event, a request
\* without group_id and duration_minutes was rejected with the list of the two
C19_Witness ==
    \E q, r \in 1..Len(reqs) :
        /\ q < r
        /\ reqs[q].response.status_code = 200
        /\ members # {}
        /\ reqs[r].handler = "admin_access_request"
        /\ reqs[r].response.status_code = 400
        /\ reqs[r].response.json.error =
              <<"Missing", "required", "fields:", "group_id", "duration_minutes">>

\* C20 (as claimed): every request whose grant reaches the provider has a
\* duration_minutes above 0 and not above the ceiling, and every orchestration
\* instance started for a request expires after the time of its grant.
C20_DurationPositive ==
    /\ \A r \in 1..Len(reqs) :
          (reqs[r].granted \/ reqs[r].error # NoError) =>
              /\ reqs[r].body.duration_minutes > 0
              /\ reqs[r].body.duration_minutes <= MaxDurationSetting
    /\ \A i \in 1..Len(orchestrations) :
          orchestrations[i].origin >= 1 =>
              fromisoformat(orchestrations[i].input.expiry_time)
                  > GrantTime(orchestrations[i].origin)

\* the orchestration instances that are to delete the role assignment assignment_id
RevocationsOf(assignment_id) ==
    {i \in 1..Len(orchestrations) :
        /\ orchestrations[i].input.revocation_type = "role_assignment"
        /\ orchestrations[i].input.assignment_id = assignment_id}

\* C21 (as claimed): once a run of backup_job_access_grant has ended, normally or
\* through its except clause, each role assignment the run created has exactly one
\* revocation orchestration started for it.
C21_BackupGrantsAllScheduled ==
    backup.pc = "idle" =>
        /\ backup.kv_result.status = "granted" =>
              Cardinality(RevocationsOf(backup.kv_result.assignment_id)) = 1
        /\ backup.stor_result.status = "granted" =>
              Cardinality(RevocationsOf(backup.stor_result.assignment_id)) = 1

\* request r is an NHI grant the provider made
NhiGranted(r) == reqs[r].handler = "nhi_access_request" /\ reqs[r].granted

\* C22: the assignment_id an orchestration instance carries is the identifier the
\* provider returned to the grant that started it, no two grants share an identifier,
\* and a role assignment is deleted only by the revocation of its own grant: while
\* none of the instances started for a grant has run its revoke activity, the grant's
\* assignment is at the provider, whatever other revocations have run.
C22_RevokeOnlyOwnAssignment ==
    /\ \A i \in 1..Len(orchestrations) :
          (orchestrations[i].origin >= 1 /\ NhiGranted(orchestrations[i].origin)) =>
              orchestrations[i].input.assignment_id =
                  reqs[orchestrations[i].origin].result.assignment_id
    /\ \A i \in 1..Len(orchestrations) :
          orchestrations[i].origin = 0 - backup.runs =>
              orchestrations[i].input.assignment_id =
                  IF orchestrations[i].input.scope = KEYVAULT_RESOURCE_ID
                  THEN backup.kv_result.assignment_id
                  ELSE backup.stor_result.assignment_id
    /\ \A q, r \in 1..Len(reqs) :
          (q # r /\ NhiGranted(q) /\ NhiGranted(r)) =>
              reqs[q].result.assignment_id # reqs[r].result.assignment_id
    /\ \A r \in 1..Len(reqs) :
          (/\ NhiGranted(r)
           /\ \A i \in RevocationsOf(reqs[r].result.assignment_id) :
                 orchestrations[i].deliveries = 0) =>
              \E a \in assignments :
                  /\ a.id = reqs[r].result.assignment_id
                  /\ a.principal_id = reqs[r].body.sp_object_id
                  /\ a.scope = reqs[r].body.scope

\* of two grants of the same principal, scope and role, one has been revoked and the
\* other, whose revocation has not run, still has its assignment
C22_Witness ==
    \E q, r \in 1..Len(reqs) :
        /\ q # r /\ NhiGranted(q) /\ NhiGranted(r)
        /\ reqs[q].body.sp_object_id = reqs[r].body.sp_object_id
        /\ reqs[q].body.scope = reqs[r].body.scope
        /\ reqs[q].body.role = reqs[r].body.role
        /\ reqs[q].instance_id # 0 /\ reqs[r].instance_id # 0
        /\ orchestrations[reqs[q].instance_id].revoked.status = "revoked"
        /\ orchestrations[reqs[r].instance_id].deliveries = 0
        /\ \E a \in assignments : a.id = reqs[r].result.assignment_id
        /\ \A a \in assignments : a.id # reqs[q].result.assignment_id

\* the access request r was granted is at the provider
RequestAccessHeld(r) ==
    IF reqs[r].handler = "admin_access_request"
    THEN <<reqs[r].body.group_id, reqs[r].body.user_id>> \in members
    ELSE \E a \in assignments : a.id = reqs[r].result.assignment_id

\* request r is a grant of positive duration, the only one of its (principal, target)
OwnLifecycle(r) ==
    /\ reqs[r].granted
    /\ reqs[r].body.duration_minutes > 0
    /\ reqs[r].handler = "admin_access_request" => SoleGrant(r)

\* the revoke activity of the instance started for request r has not run
OwnRevocationNotRun(r) ==
    \A i \in InstancesOf(r) : orchestrations[i].deliveries = 0

\* the revocation of one grant never removes the access of a grant on another
\* (principal, target): a grant's access is held as long as its own revocation has not
\* run, and is gone once its own revocation has removed it
C23_OtherRevocationsKeepAccess ==
    \A r \in 1..Len(reqs) :
        OwnLifecycle(r) =>
            /\ OwnRevocationNotRun(r) => RequestAccessHeld(r)
            /\ (\E i \in InstancesOf(r) : orchestrations[i].revoked.status = "revoked")
                  => ~RequestAccessHeld(r)
            /\ \A i \in InstancesOf(r) :
                  clock < fromisoformat(orchestrations[i].input.expiry_time)
                      => RequestAccessHeld(r)

\* C23 (as claimed): lifecycles of grants on different (principal, target) pairs are
\* independent: a grant's access is held until its own revocation has run, whatever
\* the other grants' steps, and once its own revocation has fired and its lifecycle
\* has completed the access is gone.
C23_IndependentLifecycles ==
    \A r \in 1..Len(reqs) :
        OwnLifecycle(r) =>
            /\ OwnRevocationNotRun(r) => RequestAccessHeld(r)
            /\ \A i \in InstancesOf(r) :
                  /\ clock < fromisoformat(orchestrations[i].input.expiry_time)
                        => RequestAccessHeld(r)
                  /\ orchestrations[i].pos = "return" => ~RequestAccessHeld(r)

\* C24 (as claimed): the AccessGrant audit record of a request is emitted before the
\* scheduler is asked to register its revocation: whenever an orchestration instance
\* started for a request exists, the request's AccessGrant event has been emitted.
C24_AuditBeforeSchedule ==
    \A r \in 1..Len(reqs) :
        InstancesOf(r) # {} =>
            \E k \in 1..Len(audit.request[r]) : audit.request[r][k].EventType = "AccessGrant"

\* the principal and the target a scheduled revocation is for
RevocationPrincipal(input_data) ==
    IF input_data.revocation_type = "group_membership"
    THEN input_data.user_id ELSE input_data.sp_object_id

RevocationTarget(input_data) ==
    IF input_data.revocation_type = "group_membership"
    THEN input_data.group_id ELSE input_data.scope

GrantSuccessEvents(r) ==
    {k \in 1..Len(audit.request[r]) :
        /\ audit.request[r][k].EventType = "AccessGrant"
        /\ audit.request[r][k].Result = "Success"}

\* C25: an AccessGrant event with result Success is emitted for a request only after
\* both the provider grant and the start of the revocation orchestration succeeded:
\* the request is granted and an orchestration instance started by it exists for the
\* event's principal and target; and no request has both a Success and a Failed event.
C25_SuccessEventMeansGrantedAndScheduled ==
    \A r \in 1..Len(reqs) :
        \A k \in GrantSuccessEvents(r) :
            /\ reqs[r].granted
            /\ \E i \in InstancesOf(r) :
                  /\ i = reqs[r].instance_id
                  /\ RevocationPrincipal(orchestrations[i].input) = audit.request[r][k].PrincipalId
                  /\ RevocationTarget(orchestrations[i].input) = audit.request[r][k].Target
            /\ \A j \in 1..Len(audit.request[r]) : audit.request[r][j].Result # "Failed"

\* a human and a workload request each answered 200 with the Success event recorded
\* and the revocation scheduled
C25_Witness ==
    \E r, q \in 1..Len(reqs) :
        /\ reqs[r].handler = "admin_access_request"
        /\ reqs[q].handler = "nhi_access_request"
        /\ reqs[r].pc = "done" /\ reqs[q].pc = "done"
        /\ GrantSuccessEvents(r) # {} /\ GrantSuccessEvents(q) # {}
        /\ InstancesOf(r) # {} /\ InstancesOf(q) # {}

\* the revocation_type the grant that started instance i calls for: group_membership
\* for a grant of admin_access_request, role_assignment for one of nhi_access_request
\* or of the backup job
GrantKind(i) ==
    IF orchestrations[i].origin > 0
          /\ reqs[orchestrations[i].origin].handler = "admin_access_request"
    THEN "group_membership" ELSE "role_assignment"

\* the identity type the revoke activity of a revocation_type records
ActivityIdentityType(revocation_type) ==
    IF revocation_type = "group_membership" THEN "human" ELSE "nhi"

\* C26: every orchestration payload has revocation_type group_membership or
\* role_assignment, the one of the kind of grant that scheduled it; the orchestrator
\* reaches its return only after the one revoke activity it calls has completed; and
\* every execution of an instance's activity is the activity of the instance's kind.
C26_ReturnOnlyAfterMatchingActivity ==
    \A i \in 1..Len(orchestrations) :
        LET o == orchestrations[i]
        IN  /\ o.input.revocation_type \in {"group_membership", "role_assignment"}
            /\ o.input.revocation_type = GrantKind(i)
            /\ o.pos = "return" =>
                  /\ o.history.timer_fired
                  /\ o.history.activity_done
                  /\ o.deliveries >= 1
                  /\ o.revoked.status \in {"revoked", "already_revoked"}
            /\ o.pos = "call_activity" =>
                  revocation_orchestrator(o.input, o.history).activity =
                      IF o.input.revocation_type = "group_membership"
                      THEN "revoke_group_membership_activity"
                      ELSE "revoke_role_assignment_activity"
            /\ \A k \in 1..Len(audit.activity[i]) :
                  /\ audit.activity[i][k].EventType = "AccessRevoke"
                  /\ audit.activity[i][k].IdentityType =
                         ActivityIdentityType(o.input.revocation_type)
                  /\ k <= o.deliveries

\* a group-membership instance and a role-assignment instance have both returned,
\* each after one execution of its revoke activity
C26_Witness ==
    \E i, j \in 1..Len(orchestrations) :
        /\ orchestrations[i].input.revocation_type = "group_membership"
        /\ orchestrations[j].input.revocation_type = "role_assignment"
        /\ orchestrations[i].pos = "return" /\ orchestrations[j].pos = "return"
        /\ orchestrations[i].deliveries = 1 /\ orchestrations[j].deliveries = 1
        /\ Len(audit.activity[i]) = 1 /\ Len(audit.activity[j]) = 1

====
